---- MODULE Spec2Model ----
(***************************************************************************)
(* std::extents (libc++ <mdspan>): the hybrid static/dynamic shape         *)
(* descriptor of src/unnamed/part_003, with its storage class              *)
(* __maybe_static_array, the compile-time helpers __static_array and       *)
(* __index_sequence_scan_impl, and the _LIBCPP_ASSERT facility.            *)
(*                                                                         *)
(* A state is one program point of a client of the header: the build mode, *)
(* the descriptor object the client currently holds, the last call it made *)
(* (with its arguments and its result) and whether the process aborted.    *)
(* The client constructs a descriptor from values or by default, and then  *)
(* observes it or converts it to another descriptor type.  Every value a   *)
(* descriptor can hold is reached by default construction or from an array *)
(* of rank_dynamic values, so conversions start from those.  It also       *)
(* compares the descriptor with another one, rebuilds it from its full     *)
(* list of extents, and asks for rank() and rank_dynamic().  An            *)
(* initialization that the compiler may reject (no viable constructor, or  *)
(* an explicit one under copy-initialization) is a step of its own: it     *)
(* records whether the program is well-formed and constructs nothing.      *)
(* Template arguments (index type, extents pack, argument count) are       *)
(* chosen per call, as a client instantiates them.                         *)
(*                                                                         *)
(* A second specification, SpecInstances, follows a descriptor through its *)
(* life as a value: the client holds a constructed descriptor, makes a     *)
(* second instance from it (copy or conversion), assigns to that instance  *)
(* and compares the two, while reader threads read the first instance one  *)
(* extent at a time, interleaved with the client in every order.           *)
(***************************************************************************)
EXTENDS Integers, Sequences, FiniteSets, TLC

VARIABLES assertions, ext, op, aborted, copy, readers

vars == <<assertions, ext, op, aborted, copy, readers>>

(***************************************************************************)
(* Bounds of the model.  Integer widths are scaled down so that TLC's      *)
(* integers hold every value: char keeps 8 bits, int and size_t are        *)
(* narrower than on a real target but keep their order char < int < size_t.*)
(***************************************************************************)
MaxRank == 2

CharBits == 8

IntBits == 12

SizeBits == 14

\* Integral template arguments: index_type / OtherIndexType.
IndexTypes == {"char", "int", "size_t"}

Bits(it) == CASE it = "char" -> CharBits [] it = "int" -> IntBits [] OTHER -> SizeBits

Signed(it) == it # "size_t"

\* numeric_limits<T>::min() and ::max()
NumericMin(it) == IF Signed(it) THEN 0 - 2 ^ (Bits(it) - 1) ELSE 0

NumericMax(it) == IF Signed(it) THEN 2 ^ (Bits(it) - 1) - 1 ELSE 2 ^ Bits(it) - 1

Representable(it, v) == NumericMin(it) <= v /\ v <= NumericMax(it)

\* static_cast<T>(v) for an integral T: the value modulo 2^bits.
StaticCast(it, v) ==
  LET m == v % (2 ^ Bits(it))
  IN  IF Signed(it) /\ m >= 2 ^ (Bits(it) - 1) THEN m - 2 ^ Bits(it) ELSE m

\* std::dynamic_extent == numeric_limits<size_t>::max()
dynamic_extent == 2 ^ SizeBits - 1

\* Static extents a client writes in the pack, and values it passes to constructors.
StaticTags == {5, 200}

TagValues == StaticTags \cup {dynamic_extent}

Values == {0 - 1, 4, 5, 200}

SeqsUpTo(S, n) == UNION {[1 .. k -> S] : k \in 0 .. n}

\* The extents packs (size_t... _Extents) the client instantiates.
TagSeqs == SeqsUpTo(TagValues, MaxRank)

Null == [it |-> "none", tags |-> <<>>, dyn |-> <<>>]

NoAbort == "none"

MsgMismatch == "extents construction: mismatch of provided arguments with static extents."

\* The last call: its name, the constructor form, the template arguments of
\* the constructed type, the values passed, the index passed to an observer,
\* the source descriptor of a conversion, and the value returned.
\* For a comparison: the right operand (src), the results of ==, of != and
\* of == with the operands exchanged (rev), and the number of extents read;
\* between two instances, the names of the left and the right one.  For an initialization checked by the
\* compiler: the number of values, their type, the kind of initialization,
\* and whether the program is well-formed.
NoOp ==
  [name |-> "none", form |-> "none", it |-> "none", tags |-> <<>>, vals |-> <<>>,
   r |-> 0, src |-> Null, ret |-> 0,
   eq |-> FALSE, ne |-> FALSE, rev |-> FALSE, reads |-> 0,
   lhs |-> "none", rhs |-> "none",
   n |-> 0, elem |-> "none", init |-> "none", ok |-> FALSE]

\* Contents an array of n index_type objects with indeterminate values may
\* hold (a sample of them: all bits clear, all bits set).
Indeterminate(it, n) == {[i \in 1 .. n |-> g] : g \in {0, StaticCast(it, 0 - 1)}}

----------------------------------------------------------------------------
(* __static_array_impl<_Idx, _Tp, _Extents...>::get(__r) *)
RECURSIVE static_array_impl_get(_, _, _)
static_array_impl_get(Idx, Extents, r) ==
  IF Len(Extents) = 0 THEN 0                       \* size 0: return _Tp()
  ELSE IF Len(Extents) = 1 THEN Head(Extents)      \* end of the recursion
  ELSE IF r = Idx THEN Head(Extents)
  ELSE static_array_impl_get(Idx + 1, Tail(Extents), r)

\* __static_array<_Tp, _Values...>::get(__r)
static_array_get(tags, r) == static_array_impl_get(0, tags, r)

(* __index_sequence_scan_impl<_Idx, _Values...>::get(__r) *)
RECURSIVE index_sequence_scan_impl_get(_, _, _)
index_sequence_scan_impl_get(Idx, Vals, r) ==
  IF Len(Vals) = 0 THEN 0
  ELSE IF Len(Vals) = 1 THEN (IF Idx > r THEN Head(Vals) ELSE 0)
  ELSE IF r > Idx THEN Head(Vals) + index_sequence_scan_impl_get(Idx + 1, Tail(Vals), r)
  ELSE 0

\* Mutant of dyn_map_get: an inclusive scan, counting the flag at r itself.
dyn_map_get_inclusive(tags, r) ==
  index_sequence_scan_impl_get(
    0, [i \in 1 .. Len(tags) |-> IF tags[i] = dynamic_extent THEN 1 ELSE 0], r + 1)

\* Mutant of dyn_map_get: every dynamic extent is kept in the first slot.
dyn_map_get_first(tags, r) == 0

\* __dyn_map_t::get(__r) with __dyn_map_t = scan<0, size_t(_Values == _DynTag)...>
dyn_map_get(tags, r) ==
  index_sequence_scan_impl_get(
    0, [i \in 1 .. Len(tags) |-> IF tags[i] = dynamic_extent THEN 1 ELSE 0], r)

\* sizeof...(_Values) and ((_Values == _DynTag) + ... + 0)
RECURSIVE FoldDynamic(_)
FoldDynamic(tags) ==
  IF Len(tags) = 0 THEN 0
  ELSE (IF Head(tags) = dynamic_extent THEN 1 ELSE 0) + FoldDynamic(Tail(tags))

rank(tags) == Len(tags)

\* Mutant of rank_dynamic: the fold stops at the first static extent.
RECURSIVE rank_dynamic_leading(_)
rank_dynamic_leading(tags) ==
  IF Len(tags) = 0 \/ Head(tags) # dynamic_extent THEN 0
  ELSE 1 + rank_dynamic_leading(Tail(tags))

rank_dynamic(tags) == FoldDynamic(tags)

\* What a read outside __vals_[_Num] yields: no value of any index type.
OutOfBounds == 0 - 2 ^ (SizeBits + 1)

\* __possibly_empty_array<_Tp, _Num>::operator[](__r); _Num == 0 returns _Tp()
possibly_empty_array_get(dyn, r) ==
  IF Len(dyn) = 0 THEN 0
  ELSE IF r < Len(dyn) THEN dyn[r + 1] ELSE OutOfBounds

\* __possibly_empty_array<_Tp, _Num>::operator[](__r) = v; a write outside
\* __vals_[_Num] leaves the object's own storage as it was
possibly_empty_array_set(dyn, r, v) ==
  IF Len(dyn) = 0 \/ r >= Len(dyn) THEN dyn ELSE [dyn EXCEPT ![r + 1] = v]

\* __maybe_static_array::__static_value(__r)
maybe_static_array_static_value(tags, r) == static_array_get(tags, r)

\* Mutant of maybe_static_array_value: a static value is returned as
\* _TStatic, without the cast to _TDynamic.
maybe_static_array_value_uncast(e, r) ==
  LET static_val == static_array_get(e.tags, r)
  IN  IF static_val = dynamic_extent
        THEN possibly_empty_array_get(e.dyn, dyn_map_get(e.tags, r))
        ELSE static_val

\* __maybe_static_array::__value(__r)
maybe_static_array_value(e, r) ==
  LET static_val == static_array_get(e.tags, r)
  IN  IF static_val = dynamic_extent
        THEN possibly_empty_array_get(e.dyn, dyn_map_get(e.tags, r))
        ELSE StaticCast(e.it, static_val)

\* extents::extent(__r) and extents::static_extent(__r)
extent(e, r) == maybe_static_array_value(e, r)

\* Mutant of static_extent: the value the instance holds at r.
static_extent_from_value(e, r) == maybe_static_array_value(e, r)

static_extent(e, r) == maybe_static_array_static_value(e.tags, r)

----------------------------------------------------------------------------
\* Mutant of LIBCPP_ASSERT: the check is made in every build.
LIBCPP_ASSERT_always(enabled, expression, message) ==
  IF ~expression THEN message ELSE NoAbort

\* _LIBCPP_ASSERT(expression, message): the abort message, or none
LIBCPP_ASSERT(enabled, expression, message) ==
  IF enabled /\ ~expression THEN message ELSE NoAbort

Built(it, tags, dyn) == [abort |-> NoAbort, obj |-> [it |-> it, tags |-> tags, dyn |-> dyn]]

Aborted(message) == [abort |-> message, obj |-> Null]

Zeros(n) == [i \in 1 .. n |-> 0]

\* __maybe_static_array() = default, reached through extents() = default:
\* value-initialization zeroes __dyn_vals_, default-initialization leaves it
\* indeterminate.
maybe_static_array_default(it, tags, form, garbage) ==
  Built(it, tags, IF form = "value-init" THEN Zeros(rank_dynamic(tags)) ELSE garbage)

\* __maybe_static_array(_Vals...) requires __size_dynamic_ == 0 && sizeof...(_Vals) > 0
maybe_static_array_all_static(it, tags) == Built(it, tags, <<>>)

\* __maybe_static_array(_DynVals... __vals) requires sizeof... == __size_dynamic_ > 0
maybe_static_array_dynamic_pack(it, tags, vals) ==
  Built(it, tags, [i \in 1 .. Len(vals) |-> StaticCast(it, vals[i])])

\* for (__r = 0; __r < _Num; __r++) __dyn_vals_[__r] = static_cast<_TDynamic>(__vals[__r]);
RECURSIVE dynamic_loop(_, _, _, _)
dynamic_loop(it, vals, r, dyn) ==
  IF r < Len(vals)
    THEN dynamic_loop(it, vals, r + 1,
                      possibly_empty_array_set(dyn, r, StaticCast(it, vals[r + 1])))
    ELSE dyn

\* __maybe_static_array(const array<_Tp, _Num>&) / (const span<_Tp, _Num>&)
\* requires _Num == __size_dynamic_ && _Num > 0
maybe_static_array_dynamic_array(it, tags, vals, garbage) ==
  Built(it, tags, dynamic_loop(it, vals, 0, garbage))

maybe_static_array_dynamic_span(it, tags, vals, garbage) ==
  Built(it, tags, dynamic_loop(it, vals, 0, garbage))

\* requires _Num == __size_dynamic_ && _Num == 0 : __dyn_vals_{}
maybe_static_array_empty(it, tags) == Built(it, tags, <<>>)

\* Mutant of all_values_loop: a dynamic dimension stores its value at index
\* __r of __dyn_vals_ instead of __dyn_map_t::get(__r).
RECURSIVE all_values_loop_unmapped(_, _, _, _, _, _)
all_values_loop_unmapped(it, tags, values, r, dyn, enabled) ==
  IF r < Len(tags)
    THEN LET static_val == static_array_get(tags, r)
         IN  IF static_val = dynamic_extent
               THEN all_values_loop_unmapped(it, tags, values, r + 1,
                      possibly_empty_array_set(dyn, r, values[r + 1]), enabled)
               ELSE LET a == LIBCPP_ASSERT(enabled,
                                values[r + 1] = StaticCast(it, static_val), MsgMismatch)
                    IN  IF a # NoAbort THEN Aborted(a)
                        ELSE all_values_loop_unmapped(it, tags, values, r + 1, dyn, enabled)
    ELSE Built(it, tags, dyn)

\* Mutant of all_values_loop: the value given for a static dimension
\* becomes the extent of that dimension.
all_values_loop_adopting(it, tags, values, r, dyn, enabled) ==
  Built(it,
        [i \in 1 .. Len(tags) |->
           IF tags[i] = dynamic_extent THEN tags[i] ELSE values[i] % 2 ^ SizeBits],
        [k \in 1 .. Len(dyn) |->
           values[1 + CHOOSE q \in 0 .. Len(tags) - 1 :
                        tags[q + 1] = dynamic_extent /\ dyn_map_get(tags, q) = k - 1]])

\* The loop of the constructors from all values: a dynamic dimension stores
\* its value at __dyn_map_t::get(__r), a static one is compared with the
\* static extent by _LIBCPP_ASSERT.  values are already of type _TDynamic.
RECURSIVE all_values_loop(_, _, _, _, _, _)
all_values_loop(it, tags, values, r, dyn, enabled) ==
  IF r < Len(tags)
    THEN LET static_val == static_array_get(tags, r)
         IN  IF static_val = dynamic_extent
               THEN all_values_loop(it, tags, values, r + 1,
                      possibly_empty_array_set(dyn, dyn_map_get(tags, r), values[r + 1]),
                      enabled)
               ELSE LET a == LIBCPP_ASSERT(enabled,
                                values[r + 1] = StaticCast(it, static_val), MsgMismatch)
                    IN  IF a # NoAbort THEN Aborted(a)
                        ELSE all_values_loop(it, tags, values, r + 1, dyn, enabled)
    ELSE Built(it, tags, dyn)

\* __maybe_static_array(_DynVals... __vals) requires sizeof... != __size_dynamic_ > 0
maybe_static_array_all_pack(it, tags, vals, garbage, enabled) ==
  all_values_loop(it, tags, [i \in 1 .. Len(vals) |-> StaticCast(it, vals[i])],
                  0, garbage, enabled)

\* __maybe_static_array(const array<_Tp, _Num>&) requires _Num != __size_dynamic_ > 0
maybe_static_array_all_array(it, tags, vals, garbage, enabled) ==
  all_values_loop(it, tags, [i \in 1 .. Len(vals) |-> StaticCast(it, vals[i])],
                  0, garbage, enabled)

\* Mutant of maybe_static_array_all_span: the span of all values is read as
\* the span of the dynamic values.
maybe_static_array_all_span_as_dynamic(it, tags, vals, garbage, enabled) ==
  Built(it, tags, dynamic_loop(it, vals, 0, garbage))

\* __maybe_static_array(const span<_Tp, _Num>&) requires _Num != __size_dynamic_ > 0
maybe_static_array_all_span(it, tags, vals, garbage, enabled) ==
  all_values_loop(it, tags, [i \in 1 .. Len(vals) |-> StaticCast(it, vals[i])],
                  0, garbage, enabled)

\* extents(_OtherIndexTypes... __dynvals) : __vals_(static_cast<index_type>(__dynvals)...)
\* with the overload of __maybe_static_array its requires-clauses select.
extents_from_pack(it, tags, vals, garbage, enabled) ==
  LET cast == [i \in 1 .. Len(vals) |-> StaticCast(it, vals[i])]
  IN  IF rank_dynamic(tags) = 0 THEN maybe_static_array_all_static(it, tags)
      ELSE IF Len(vals) = rank_dynamic(tags)
        THEN maybe_static_array_dynamic_pack(it, tags, cast)
        ELSE maybe_static_array_all_pack(it, tags, cast, garbage, enabled)

\* extents(const array<_OtherIndexType, _Num>& __exts) : __vals_(std::move(__exts))
extents_from_array(it, tags, vals, garbage, enabled) ==
  IF Len(vals) = rank_dynamic(tags)
    THEN IF Len(vals) > 0
           THEN maybe_static_array_dynamic_array(it, tags, vals, garbage)
           ELSE maybe_static_array_empty(it, tags)
  ELSE IF rank_dynamic(tags) > 0
    THEN maybe_static_array_all_array(it, tags, vals, garbage, enabled)
    ELSE maybe_static_array_all_static(it, tags)

\* extents(const span<_OtherIndexType, _Num>& __exts) : __vals_(std::move(__exts))
extents_from_span(it, tags, vals, garbage, enabled) ==
  IF Len(vals) = rank_dynamic(tags)
    THEN IF Len(vals) > 0
           THEN maybe_static_array_dynamic_span(it, tags, vals, garbage)
           ELSE maybe_static_array_empty(it, tags)
  ELSE IF rank_dynamic(tags) > 0
    THEN maybe_static_array_all_span(it, tags, vals, garbage, enabled)
    ELSE maybe_static_array_all_static(it, tags)

\* Mutant of ValuesCtorAvailable: only the full form is accepted.
ValuesCtorAvailable_rank_only(tags, n) == n = rank(tags)

\* requires (sizeof...(_OtherIndexTypes) == __rank_ || ... == __rank_dynamic_)
ValuesCtorAvailable(tags, n) == n = rank(tags) \/ n = rank_dynamic(tags)

\* Mutant of construct_vals_from_extents: reads the source at _DynCount
\* instead of _Idx.
RECURSIVE construct_vals_from_extents_dyncount(_, _, _, _, _)
construct_vals_from_extents_dyncount(it, tags, Idx, exts, dynamic_values) ==
  IF Idx < rank(tags)
    THEN IF static_array_get(tags, Idx) = dynamic_extent
           THEN construct_vals_from_extents_dyncount(it, tags, Idx + 1, exts,
                  Append(dynamic_values, extent(exts, Len(dynamic_values))))
           ELSE construct_vals_from_extents_dyncount(it, tags, Idx + 1, exts, dynamic_values)
    ELSE IF Len(dynamic_values) = 0
           THEN maybe_static_array_default(it, tags, "value-init", <<>>)
           ELSE maybe_static_array_dynamic_pack(
                  it, tags,
                  [i \in 1 .. Len(dynamic_values) |-> StaticCast(it, dynamic_values[i])])

\* __construct_vals_from_extents: walks _Idx = 0 .. __rank_, appending
\* __exts.extent(_Idx) to the pack at every dynamic destination dimension.
RECURSIVE construct_vals_from_extents(_, _, _, _, _)
construct_vals_from_extents(it, tags, Idx, exts, dynamic_values) ==
  IF Idx < rank(tags)
    THEN IF static_array_get(tags, Idx) = dynamic_extent
           THEN construct_vals_from_extents(it, tags, Idx + 1, exts,
                                            Append(dynamic_values, extent(exts, Idx)))
           ELSE construct_vals_from_extents(it, tags, Idx + 1, exts, dynamic_values)
    ELSE \* __vals_t{static_cast<index_type>(__dynamic_values)...}
         IF Len(dynamic_values) = 0
           THEN maybe_static_array_default(it, tags, "value-init", <<>>)
           ELSE maybe_static_array_dynamic_pack(
                  it, tags,
                  [i \in 1 .. Len(dynamic_values) |-> StaticCast(it, dynamic_values[i])])

\* Types of the values a client passes: an integral type, a class whose
\* conversion to index_type may throw, a class that converts to another
\* integer type only.
ElementTypes == {"integral", "throwing", "unrelated"}

\* is_convertible_v<_OtherIndexType, index_type>
is_convertible(elem) == elem # "unrelated"

\* is_nothrow_constructible_v<index_type, _OtherIndexType>
is_nothrow_constructible(elem) == elem = "integral"

\* The whole requires-clause of the constructors from values
ValuesCtorRequires(tags, n, elem) ==
  /\ is_convertible(elem)
  /\ is_nothrow_constructible(elem)
  /\ ValuesCtorAvailable(tags, n)

\* Mutant of ValuesCtorExplicit: the constructors as the earlier draft
\* extents.h declares them, without explicit.
extents_h_ValuesCtorExplicit(form, tags, n) == FALSE

\* explicit for the pack form, explicit(_Num != __rank_dynamic_) for array and span
ValuesCtorExplicit(form, tags, n) ==
  IF form = "pack" THEN TRUE ELSE n # rank_dynamic(tags)

\* An initialization is well-formed when a constructor is viable and, for
\* copy-initialization (implicit conversion), not explicit.
WellFormed(viable, explicit, init) == viable /\ (init = "direct" \/ ~explicit)

\* Mutant of ConvertingCtorAvailable: only the ranks are compared.
ConvertingCtorAvailable_rank_only(tags, other_tags) == Len(other_tags) = Len(tags)

\* requires of the converting constructor: equal rank, and no dimension where
\* both extents are static and differ
ConvertingCtorAvailable(tags, other_tags) ==
  /\ Len(other_tags) = Len(tags)
  /\ \A i \in 1 .. Len(tags) :
       \/ other_tags[i] = dynamic_extent
       \/ tags[i] = dynamic_extent
       \/ other_tags[i] = tags[i]

\* Mutant of ConvertingCtorExplicit: the index types are not looked at.
ConvertingCtorExplicit_tags_only(it, tags, other_it, other_tags) ==
  \E i \in DOMAIN tags \cap DOMAIN other_tags :
    tags[i] # dynamic_extent /\ other_tags[i] = dynamic_extent

\* explicit((((_Extents != dynamic_extent) && (_OtherExtents == dynamic_extent)) || ...) ||
\*          (make_unsigned(numeric_limits<index_type>::max()) <
\*           make_unsigned(numeric_limits<_OtherIndexType>::max())))
ConvertingCtorExplicit(it, tags, other_it, other_tags) ==
  \/ \E i \in DOMAIN tags \cap DOMAIN other_tags :
       tags[i] # dynamic_extent /\ other_tags[i] = dynamic_extent
  \/ NumericMax(it) % 2 ^ Bits(it) < NumericMax(other_it) % 2 ^ Bits(other_it)

\* Mutant of extents_converting: the source extent of every static destination
\* dimension is compared with the static extent by _LIBCPP_ASSERT.
extents_converting_validating(it, tags, other, enabled) ==
  IF \A i \in 1 .. Len(tags) :
       \/ tags[i] = dynamic_extent
       \/ LIBCPP_ASSERT(enabled, extent(other, i - 1) = StaticCast(other.it, tags[i]),
                        MsgMismatch) = NoAbort
    THEN construct_vals_from_extents(it, tags, 0, other, <<>>)
    ELSE Aborted(MsgMismatch)

\* extents(const extents<_OtherIndexType, _OtherExtents...>& __other)
extents_converting(it, tags, other, enabled) ==
  construct_vals_from_extents(it, tags, 0, other, <<>>)

----------------------------------------------------------------------------
\* for (__r = 0; __r < __rank_; __r++)
\*   __value &= static_cast<index_type>(__rhs.extent(__r)) == __lhs.extent(__r);
RECURSIVE equals_loop(_, _, _, _)
equals_loop(lhs, rhs, r, value) ==
  IF r < rank(lhs.tags)
    THEN equals_loop(lhs, rhs, r + 1,
                     value /\ (StaticCast(lhs.it, extent(rhs, r)) = extent(lhs, r)))
    ELSE value

\* The type both operands of a built-in == are converted to (usual
\* arithmetic conversions): size_t if either is size_t, int otherwise.
CommonType(a, b) == IF a = "size_t" \/ b = "size_t" THEN "size_t" ELSE "int"

\* The loop of operator== in the earlier draft of the header (extents.h):
\* for (int r = 0; r < m_rank; r++) value &= ext.extent(r) == ext2.extent(r);
RECURSIVE extents_h_equals_loop(_, _, _, _)
extents_h_equals_loop(lhs, rhs, r, value) ==
  IF r < rank(lhs.tags)
    THEN extents_h_equals_loop(lhs, rhs, r + 1,
           value /\ (StaticCast(CommonType(lhs.it, rhs.it), extent(lhs, r))
                       = StaticCast(CommonType(lhs.it, rhs.it), extent(rhs, r))))
    ELSE value

\* Mutant of extents_equals: operator== as the earlier draft extents.h has
\* it, with no test of the ranks and no cast to the left index type.
extents_h_equals(lhs, rhs) ==
  [value |-> extents_h_equals_loop(lhs, rhs, 0, TRUE), reads |-> 2 * rank(lhs.tags)]

\* Mutant of extents_equals: descriptors of different index types are unequal.
extents_equals_same_type(lhs, rhs) ==
  IF rank(lhs.tags) # rank(rhs.tags) \/ lhs.it # rhs.it
    THEN [value |-> FALSE, reads |-> 0]
    ELSE [value |-> equals_loop(lhs, rhs, 0, TRUE), reads |-> 2 * rank(lhs.tags)]

\* operator==(const extents& __lhs, const extents<_OtherIndexType, _OtherExtents...>& __rhs)
\* with the number of calls of extent() it makes
extents_equals(lhs, rhs) ==
  IF rank(lhs.tags) # rank(rhs.tags)
    THEN [value |-> FALSE, reads |-> 0]
    ELSE [value |-> equals_loop(lhs, rhs, 0, TRUE), reads |-> 2 * rank(lhs.tags)]

\* Mutant of extents_not_equals: the result of == itself.
extents_same_as_equals(lhs, rhs) == extents_equals(lhs, rhs).value

\* operator!=(extents const& __lhs, extents<...> const& __rhs): !(__lhs == __rhs)
extents_not_equals(lhs, rhs) == ~extents_equals(lhs, rhs).value

----------------------------------------------------------------------------
\* The reader threads of the second specification, before they start: the
\* next dimension to read, the extents and static extents read so far, the
\* running result of d == d, and the results of rank() and rank_dynamic().
Threads == {1, 2}

Idle == [t \in Threads |-> [pc |-> 0, seen |-> <<>>, statics |-> <<>>, eq |-> TRUE,
                            rk |-> 0, rkd |-> 0]]

Init ==
  /\ assertions \in BOOLEAN
  /\ ext = Null
  /\ op = NoOp
  /\ aborted = NoAbort
  /\ copy = Null
  /\ readers = Idle

\* E e;  or  E e{};  /  E()
DefaultConstruct ==
  /\ aborted = NoAbort
  /\ ext = Null
  /\ op = NoOp
  /\ \E it \in IndexTypes, tags \in TagSeqs, form \in {"value-init", "default-init"} :
       \E garbage \in Indeterminate(it, rank_dynamic(tags)) :
         LET res == maybe_static_array_default(it, tags, form, garbage)
         IN  /\ ext' = res.obj
             /\ op' = [NoOp EXCEPT !.name = "default", !.form = form,
                                   !.it = it, !.tags = tags]
  /\ UNCHANGED <<assertions, aborted, copy, readers>>

ValuesCtor(form, it, tags, vals, garbage, enabled) ==
  CASE form = "pack"  -> extents_from_pack(it, tags, vals, garbage, enabled)
    [] form = "array" -> extents_from_array(it, tags, vals, garbage, enabled)
    [] OTHER          -> extents_from_span(it, tags, vals, garbage, enabled)

\* E(v...), E(std::array{v...}), E(std::span{v...}) with N == rank or N == rank_dynamic
ConstructFromValues ==
  /\ aborted = NoAbort
  /\ ext = Null
  /\ op = NoOp
  /\ \E it \in IndexTypes, tags \in TagSeqs, form \in {"pack", "array", "span"} :
       \E n \in {rank(tags), rank_dynamic(tags)} :
         \E vals \in [1 .. n -> Values],
            garbage \in Indeterminate(it, rank_dynamic(tags)) :
           /\ ValuesCtorAvailable(tags, n)
           /\ form = "pack" => n > 0
           /\ LET res == ValuesCtor(form, it, tags, vals, garbage, assertions)
              IN  /\ ext' = res.obj
                  /\ aborted' = res.abort
                  /\ op' = [NoOp EXCEPT !.name = "values", !.form = form,
                                        !.it = it, !.tags = tags, !.vals = vals]
  /\ UNCHANGED <<assertions, copy, readers>>

\* To dest(src) for the descriptor the client holds
ConvertConstruct ==
  /\ aborted = NoAbort
  /\ ext # Null
  /\ \/ op.name = "default"
     \/ op.name = "values" /\ op.form = "array" /\ Len(op.vals) = rank_dynamic(ext.tags)
  /\ \E it \in IndexTypes, tags \in TagSeqs :
       /\ ConvertingCtorAvailable(tags, ext.tags)
       /\ LET res == extents_converting(it, tags, ext, assertions)
          IN  /\ ext' = res.obj
              /\ aborted' = res.abort
              /\ op' = [NoOp EXCEPT !.name = "convert", !.it = it, !.tags = tags,
                                    !.src = ext]
  /\ UNCHANGED <<assertions, copy, readers>>

\* The calls that leave the client with a newly constructed descriptor, which
\* it then observes, compares or converts.
Constructions == {"default", "values", "convert"}

\* extents::extent(__r) called by the client, in or out of [0, rank)
CallExtent ==
  /\ aborted = NoAbort
  /\ ext # Null
  /\ op.name \in Constructions
  /\ \E r \in 0 .. MaxRank :
       op' = [NoOp EXCEPT !.name = "extent", !.it = ext.it, !.tags = ext.tags,
                          !.r = r, !.ret = extent(ext, r)]
  /\ UNCHANGED <<assertions, ext, aborted, copy, readers>>

\* extents::static_extent(__r) called by the client, in or out of [0, rank)
CallStaticExtent ==
  /\ aborted = NoAbort
  /\ ext # Null
  /\ op.name \in Constructions
  /\ \E r \in 0 .. MaxRank :
       op' = [NoOp EXCEPT !.name = "static_extent", !.it = ext.it, !.tags = ext.tags,
                          !.r = r, !.ret = static_extent(ext, r)]
  /\ UNCHANGED <<assertions, ext, aborted, copy, readers>>

\* extents::rank() called by the client
CallRank ==
  /\ aborted = NoAbort
  /\ ext # Null
  /\ op.name \in Constructions
  /\ op' = [NoOp EXCEPT !.name = "rank", !.it = ext.it, !.tags = ext.tags,
                        !.ret = rank(ext.tags)]
  /\ UNCHANGED <<assertions, ext, aborted, copy, readers>>

\* extents::rank_dynamic() called by the client
CallRankDynamic ==
  /\ aborted = NoAbort
  /\ ext # Null
  /\ op.name \in Constructions
  /\ op' = [NoOp EXCEPT !.name = "rank_dynamic", !.it = ext.it, !.tags = ext.tags,
                        !.ret = rank_dynamic(ext.tags)]
  /\ UNCHANGED <<assertions, ext, aborted, copy, readers>>

\* Values of the descriptors a client compares the one it holds with: two
\* that a char represents or not, and one that a char confuses with 4.
CompareValues == {4, 200, 4 + 2 ^ CharBits}

\* Right operands: descriptors of every index type and of every pack below
\* the largest rank, built from rank_dynamic values.
Operands ==
  {extents_from_array(x[1], x[2], x[3], x[3], FALSE).obj :
     x \in {y \in IndexTypes \X SeqsUpTo(TagValues, MaxRank - 1)
                              \X SeqsUpTo(CompareValues, MaxRank - 1) :
               Len(y[3]) = rank_dynamic(y[2])}}

\* e == other, e != other and other == e for the descriptor the client holds: after a
\* conversion or a round trip other is the descriptor it was made from,
\* after a construction from an array of rank_dynamic values it is any operand
CallEquals ==
  /\ aborted = NoAbort
  /\ ext # Null
  /\ \E rhs \in (IF op.name \in {"convert", "roundtrip"} THEN {op.src}
                  ELSE IF op.name = "values" /\ op.form = "array"
                            /\ Len(op.vals) = rank_dynamic(ext.tags)
                    THEN Operands ELSE {}) :
       LET e == extents_equals(ext, rhs)
       IN  op' = [NoOp EXCEPT !.name = "equals",
                              !.form = IF op.name \in {"convert", "roundtrip"}
                                         THEN op.name ELSE "none",
                              !.it = ext.it, !.tags = ext.tags, !.src = rhs,
                              !.eq = e.value, !.ne = extents_not_equals(ext, rhs),
                              !.rev = extents_equals(rhs, ext).value,
                              !.reads = e.reads]
  /\ UNCHANGED <<assertions, ext, aborted, copy, readers>>

\* The full extent list of a descriptor: extent(r) for r in [0, rank)
FullExtents(e) == [i \in 1 .. rank(e.tags) |-> extent(e, i - 1)]

\* E(d.extent(0), ..., d.extent(rank - 1)), or the same list as array or span,
\* for the descriptor d of type E the client holds
RoundTrip ==
  /\ aborted = NoAbort
  /\ ext # Null
  /\ \/ op.name = "default"
     \/ op.name = "values" /\ op.form = "array" /\ Len(op.vals) = rank_dynamic(ext.tags)
  /\ \E form \in {"pack", "array", "span"} :
       \E garbage \in Indeterminate(ext.it, rank_dynamic(ext.tags)) :
         /\ form = "pack" => rank(ext.tags) > 0
         /\ LET res == ValuesCtor(form, ext.it, ext.tags, FullExtents(ext), garbage,
                                  assertions)
            IN  /\ ext' = res.obj
                /\ aborted' = res.abort
                /\ op' = [NoOp EXCEPT !.name = "roundtrip", !.form = form,
                                      !.it = ext.it, !.tags = ext.tags,
                                      !.vals = FullExtents(ext), !.src = ext]
  /\ UNCHANGED <<assertions, copy, readers>>

\* __dyn_map_t::get(__r) of the storage class of a pack, for r in [0, rank]
CallSlot ==
  /\ aborted = NoAbort
  /\ ext = Null
  /\ op = NoOp
  /\ \E tags \in TagSeqs :
       \E r \in 0 .. rank(tags) :
         op' = [NoOp EXCEPT !.name = "slot", !.tags = tags, !.r = r,
                            !.ret = dyn_map_get(tags, r)]
  /\ UNCHANGED <<assertions, ext, aborted, copy, readers>>

\* The compiler checks E e(v...); / E e = {v...}; and the same with an array
\* or a span of N values of some element type; an ill-formed program does not run
InitializeFromValues ==
  /\ aborted = NoAbort
  /\ ext = Null
  /\ op = NoOp
  /\ \E tags \in TagSeqs, form \in {"pack", "array", "span"}, n \in 0 .. MaxRank + 1 :
       \E elem \in ElementTypes, init \in {"direct", "copy"} :
         /\ form = "pack" => n > 0
         /\ op' = [NoOp EXCEPT !.name = "initialize", !.form = form, !.tags = tags,
                               !.n = n, !.elem = elem, !.init = init,
                               !.ok = WellFormed(ValuesCtorRequires(tags, n, elem),
                                                 ValuesCtorExplicit(form, tags, n), init)]
  /\ UNCHANGED <<assertions, ext, aborted, copy, readers>>

\* The compiler checks To to(from); / To to = from; for two descriptor types
InitializeFromExtents ==
  /\ aborted = NoAbort
  /\ ext = Null
  /\ op = NoOp
  /\ \E it \in IndexTypes, tags \in TagSeqs, other_it \in IndexTypes, other_tags \in TagSeqs :
       \E init \in {"direct", "copy"} :
         op' = [NoOp EXCEPT !.name = "initialize", !.form = "extents", !.it = it,
                            !.tags = tags, !.init = init,
                            !.src = [it |-> other_it, tags |-> other_tags, dyn |-> <<>>],
                            !.ok = WellFormed(ConvertingCtorAvailable(tags, other_tags),
                                              ConvertingCtorExplicit(it, tags, other_it,
                                                                     other_tags), init)]
  /\ UNCHANGED <<assertions, ext, aborted, copy, readers>>

Next ==
  \/ InitializeFromValues
  \/ InitializeFromExtents
  \/ DefaultConstruct
  \/ ConstructFromValues
  \/ ConvertConstruct
  \/ CallExtent
  \/ CallStaticExtent
  \/ CallRank
  \/ CallRankDynamic
  \/ CallEquals
  \/ RoundTrip
  \/ CallSlot

Spec == Init /\ [][Next]_vars

----------------------------------------------------------------------------
(***************************************************************************)
(* The second specification.  The client holds the instance d (variable    *)
(* ext) and makes the instance c (variable copy) from it.  Copying,        *)
(* converting, comparing and reading contain no _LIBCPP_ASSERT, so the     *)
(* build mode is the one without assertions.                               *)
(***************************************************************************)
Names == {"d", "c"}

\* Mutant of write_vals: making or assigning an instance empties the other
\* one, as a move that resets its source would.
write_vals_stealing(objs, name, value) ==
  [n \in Names |-> IF n = name THEN value
                   ELSE IF objs[n] = Null THEN Null
                   ELSE [objs[n] EXCEPT !.dyn = Zeros(Len(objs[n].dyn))]]

\* Mutant of write_vals: __vals_ as a static data member, one for all the
\* instances of a type.
write_vals_static_member(objs, name, value) ==
  [n \in Names |-> IF n = name THEN value
                   ELSE IF objs[n] # Null /\ objs[n].it = value.it
                             /\ objs[n].tags = value.tags
                     THEN value ELSE objs[n]]

\* __vals_t __vals_ is a non-static data member: constructing or assigning
\* the instance called name writes the __vals_ of that instance
write_vals(objs, name, value) == [objs EXCEPT ![name] = value]

\* Mutant of copy_construct: the new instance is value-initialized.
copy_construct_value_init(src) == [src EXCEPT !.dyn = Zeros(Len(src.dyn))]

\* extents(const extents&), implicitly defined: copies __vals_, that is every
\* element of __dyn_vals_
copy_construct(src) ==
  [it |-> src.it, tags |-> src.tags, dyn |-> [i \in 1 .. Len(src.dyn) |-> src.dyn[i]]]

\* operator=(const extents&), implicitly defined, for two instances of one type
copy_assign(target, src) ==
  [target EXCEPT !.dyn = [i \in 1 .. Len(target.dyn) |-> src.dyn[i]]]

\* One iteration of the loop of operator==
equals_step(lhs, rhs, r, value) ==
  value /\ (StaticCast(lhs.it, extent(rhs, r)) = extent(lhs, r))

\* The descriptors d starts as: of every index type and pack, constructed
\* from an array of rank_dynamic values.
InstanceValues ==
  {extents_from_array(x[1], x[2], x[3], x[3], FALSE).obj :
     x \in {y \in IndexTypes \X TagSeqs \X SeqsUpTo({4, 200}, MaxRank) :
               Len(y[3]) = rank_dynamic(y[2])}}

InitInstances ==
  /\ assertions = FALSE
  /\ ext \in InstanceValues
  /\ op = NoOp
  /\ aborted = NoAbort
  /\ copy = Null
  /\ readers = Idle

\* E c(d);
CopyConstruct ==
  /\ copy = Null
  /\ LET objs == write_vals([n \in Names |-> IF n = "d" THEN ext ELSE copy], "c",
                            copy_construct(ext))
     IN  ext' = objs["d"] /\ copy' = objs["c"]
  /\ op' = [NoOp EXCEPT !.name = "copy", !.it = ext.it, !.tags = ext.tags]
  /\ UNCHANGED <<assertions, aborted, readers>>

\* To c(d); for the same pack or the pack of dynamic extents only, and any index type
ConvertFromInstance ==
  /\ copy = Null
  /\ \E it \in IndexTypes,
        tags \in {ext.tags, [i \in 1 .. Len(ext.tags) |-> dynamic_extent]} :
       /\ ConvertingCtorAvailable(tags, ext.tags)
       /\ LET objs == write_vals([n \in Names |-> IF n = "d" THEN ext ELSE copy], "c",
                                 extents_converting(it, tags, ext, assertions).obj)
          IN  ext' = objs["d"] /\ copy' = objs["c"]
       /\ op' = [NoOp EXCEPT !.name = "converted", !.it = it, !.tags = tags]
  /\ UNCHANGED <<assertions, aborted, readers>>

\* What the client assigns to c: d itself when c has the type of d, and E
\* with every dynamic extent 200.
AssignSources ==
  {[form |-> "value",
    obj |-> [copy EXCEPT !.dyn = [i \in 1 .. Len(copy.dyn) |-> StaticCast(copy.it, 200)]]]}
  \cup (IF copy.it = ext.it /\ copy.tags = ext.tags
          THEN {[form |-> "d", obj |-> ext]} ELSE {})

\* c = d;  c = E(200, ...);
AssignInstance ==
  /\ copy # Null
  /\ \E src \in AssignSources :
       /\ LET objs == write_vals([n \in Names |-> IF n = "d" THEN ext ELSE copy], "c",
                                 copy_assign(copy, src.obj))
          IN  ext' = objs["d"] /\ copy' = objs["c"]
       /\ op' = [NoOp EXCEPT !.name = "assign", !.form = src.form,
                             !.it = copy.it, !.tags = copy.tags]
  /\ UNCHANGED <<assertions, aborted, readers>>

\* c == d with d == c, and d == d; form tells whether c was last made a
\* copy of d
CompareInstances ==
  /\ copy # Null
  /\ op.name \in {"copy", "converted", "assign"}
  /\ \E lhs \in Names :
       LET rhs == "d"
           a == IF lhs = "d" THEN ext ELSE copy
           b == IF rhs = "d" THEN ext ELSE copy
       IN  op' = [NoOp EXCEPT !.name = "equals",
                              !.form = IF op.name = "copy"
                                            \/ (op.name = "assign" /\ op.form = "d")
                                         THEN "copy" ELSE "other",
                              !.it = a.it, !.tags = a.tags, !.lhs = lhs, !.rhs = rhs,
                              !.eq = extents_equals(a, b).value,
                              !.ne = extents_not_equals(a, b),
                              !.rev = extents_equals(b, a).value]
  /\ UNCHANGED <<assertions, ext, aborted, copy, readers>>

\* A thread reads d without synchronization: extent(r) and static_extent(r)
\* for r = 0, 1, ... with the iteration r of d == d, then rank() and
\* rank_dynamic(); each step is one load of __dyn_vals_
ReaderStep(t) ==
  /\ ext # Null
  /\ readers[t].pc <= rank(ext.tags)
  /\ readers' =
       [readers EXCEPT ![t] =
          IF @.pc < rank(ext.tags)
            THEN [@ EXCEPT !.pc = @ + 1,
                           !.seen = Append(@, extent(ext, readers[t].pc)),
                           !.statics = Append(@, static_extent(ext, readers[t].pc)),
                           !.eq = equals_step(ext, ext, readers[t].pc, @)]
            ELSE [@ EXCEPT !.pc = @ + 1,
                           !.rk = rank(ext.tags),
                           !.rkd = rank_dynamic(ext.tags)]]
  /\ UNCHANGED <<assertions, ext, op, aborted, copy>>

NextInstances ==
  \/ CopyConstruct
  \/ ConvertFromInstance
  \/ AssignInstance
  \/ CompareInstances
  \/ \E t \in Threads : ReaderStep(t)

SpecInstances == InitInstances /\ [][NextInstances]_vars
----------------------------------------------------------------------------
(* Diagnostics the tests expect and the header does not contain. *)
MsgRepresentable == "extents arguments must be representable as index_type"

MsgIndex == "extents access: index must be less than rank"

\* Dimensions of a pack, and the number of dynamic extents before dimension r.
Dims(tags) == 0 .. Len(tags) - 1

IsDynamic(tags, r) == tags[r + 1] = dynamic_extent

DynamicBefore(tags, r) == Cardinality({i \in 0 .. r - 1 : IsDynamic(tags, i)})

\* x is the integer v held as an index_type: v converted to the index type,
\* which is v itself whenever index_type can represent v.
HeldAs(it, x, v) == x = StaticCast(it, v) /\ (Representable(it, v) => x = v)

\* C1: in every descriptor, by whichever constructor, extent(r) equals
\* static_extent(r) at every dimension r whose static extent is not
\* dynamic_extent, for every index type and every static extent.
C1_StaticExtentIsExtent ==
  ext # Null =>
    \A r \in Dims(ext.tags) :
      static_extent(ext, r) # dynamic_extent => extent(ext, r) = static_extent(ext, r)

C4_MismatchAborts ==
  ( /\ assertions /\ op.name = "values" /\ Len(op.vals) = rank(op.tags)
    /\ \E r \in Dims(op.tags) : ~IsDynamic(op.tags, r) /\ op.vals[r + 1] # op.tags[r + 1] ) =>
    aborted = MsgMismatch

\* C5: with assertions enabled, construction from a value that is negative
\* or not representable in index_type aborts with the representability
\* message and yields no descriptor.
C5_OutOfRangeAborts ==
  ( /\ assertions /\ op.name = "values"
    /\ \E i \in 1 .. Len(op.vals) : op.vals[i] < 0 \/ ~Representable(op.it, op.vals[i]) ) =>
    aborted = MsgRepresentable /\ ext = Null

\* C6: with assertions enabled, extent(r) and static_extent(r) with
\* r >= rank abort with the index message instead of returning.
C6_IndexOutOfRangeAborts ==
  ( /\ assertions /\ op.name \in {"extent", "static_extent"}
    /\ op.r >= rank(op.tags) ) =>
    aborted = MsgIndex

\* C7: after default construction every dynamic dimension has extent zero
\* and every static dimension its static extent (held as index_type).
C7_DefaultIsZero ==
  op.name = "default" =>
    /\ ext # Null /\ ext.it = op.it /\ ext.tags = op.tags
    /\ \A r \in Dims(op.tags) :
         extent(ext, r) = IF IsDynamic(op.tags, r) THEN 0
                          ELSE StaticCast(op.it, op.tags[r + 1])

ConvertMismatches ==
  {r \in Dims(op.tags) : /\ IsDynamic(op.src.tags, r) /\ ~IsDynamic(op.tags, r)
                         /\ extent(op.src, r) # op.tags[r + 1]}

\* C9: the converting constructor never aborts, with or without assertions,
\* whatever the source holds at a static destination dimension; it stores
\* exactly the rank_dynamic values of the dynamic destination dimensions, and
\* a static destination dimension keeps its static extent.
C9_ConvertNotValidated ==
  op.name = "convert" =>
    /\ aborted = NoAbort /\ ext # Null
    /\ Len(ext.dyn) = Cardinality({r \in Dims(op.tags) : IsDynamic(op.tags, r)})
    /\ \A r \in Dims(op.tags) :
         ~IsDynamic(op.tags, r) => extent(ext, r) = StaticCast(op.it, op.tags[r + 1])

\* A conversion with assertions enabled whose source differs from the
\* destination's static extent, completed.
C9_Witness ==
  /\ assertions /\ op.name = "convert" /\ ConvertMismatches # {}
  /\ aborted = NoAbort /\ ext # Null

\* C10: with assertions enabled, constructing extents<_, 5, D> from a source
\* descriptor whose extents are (4, x) aborts with the mismatch message.
C10_ConvertMismatchAborts ==
  ( /\ assertions /\ op.name = "convert"
    /\ op.tags = <<5, dynamic_extent>> /\ extent(op.src, 0) = 4 ) =>
    aborted = MsgMismatch

\* C11: when a conversion is legal, the source's extent equals the
\* destination's static extent at every static destination dimension and
\* every source extent is representable in the destination index type, the
\* converted descriptor compares equal to its source (dest == src) and has
\* the source's extent at every dimension.
C11_ConvertedEqualsSource ==
  ( /\ op.name = "equals" /\ op.form = "convert"
    /\ \A r \in Dims(ext.tags) :
         /\ ~IsDynamic(ext.tags, r) => extent(op.src, r) = ext.tags[r + 1]
         /\ Representable(ext.it, extent(op.src, r)) ) =>
    /\ op.eq
    /\ \A r \in Dims(ext.tags) : extent(ext, r) = extent(op.src, r)

\* extents<size_t, D, D> with extents (5, 200) converted to extents<int, 5, 200>
\* and compared with it: equal, extents 5 and 200.
C11_Witness ==
  /\ op.name = "equals" /\ op.form = "convert" /\ op.eq
  /\ op.src.tags = <<dynamic_extent, dynamic_extent>> /\ op.src.it = "size_t"
  /\ ext.tags = <<5, 200>> /\ ext.it = "int"
  /\ extent(op.src, 0) = 5 /\ extent(op.src, 1) = 200
  /\ extent(ext, 0) = 5 /\ extent(ext, 1) = 200

\* C12: lhs == rhs is true exactly when the ranks match and, at every
\* dimension r below the rank, lhs.extent(r) equals rhs.extent(r) cast to the
\* index type of lhs; when the ranks differ the result is false and no extent
\* of either operand is read.
C12_EqualityIsExtentwise ==
  op.name = "equals" =>
    /\ op.eq <=> /\ Len(ext.tags) = Len(op.src.tags)
                 /\ \A r \in Dims(ext.tags) :
                      extent(ext, r) = StaticCast(ext.it, extent(op.src, r))
    /\ Len(ext.tags) # Len(op.src.tags) => ~op.eq /\ op.reads = 0

\* extents<char, D>(200) == extents<int, D>(200): equal through the cast of
\* 200 to char, although the extents differ as integers.
C12_Witness ==
  /\ op.name = "equals" /\ op.eq
  /\ ext.it = "char" /\ ext.tags = <<dynamic_extent>>
  /\ op.src.it = "int" /\ op.src.tags = <<dynamic_extent>>
  /\ extent(op.src, 0) = 200 /\ extent(ext, 0) # 200

\* C13: for every pair of descriptors, of equal or different ranks, the
\* result of a != b is the negation of the result of a == b.
C13_NotEqualIsNegation ==
  op.name = "equals" => (op.ne <=> ~op.eq)

\* Descriptors of different ranks compared: != is true, == is false.
C13_Witness ==
  /\ op.name = "equals" /\ Len(ext.tags) # Len(op.src.tags)
  /\ op.ne /\ ~op.eq

\* C14: constructing a descriptor of the same type from the full extent list
\* of a descriptor D (pack, array or span of extent(r), r in [0, rank))
\* completes without abort, and the result compares equal to D and has D's
\* extent at every dimension.
C14_RoundTrip ==
  /\ op.name = "roundtrip" =>
       /\ aborted = NoAbort
       /\ ext # Null /\ ext.it = op.src.it /\ ext.tags = op.src.tags
       /\ \A r \in Dims(ext.tags) : extent(ext, r) = extent(op.src, r)
  /\ (op.name = "equals" /\ op.form = "roundtrip") => op.eq /\ ~op.ne

\* extents<int, 5, D> with extents (5, 4) rebuilt from (5, 4) in a build with
\* assertions and compared with the original.
C14_Witness ==
  /\ assertions /\ op.name = "equals" /\ op.form = "roundtrip" /\ op.eq
  /\ ext.it = "int" /\ ext.tags = <<5, dynamic_extent>>
  /\ extent(op.src, 0) = 5 /\ extent(op.src, 1) = 4
  /\ extent(ext, 0) = 5 /\ extent(ext, 1) = 4

\* The initializations from N values, and from another descriptor type.
FromValues == op.name = "initialize" /\ op.form \in {"pack", "array", "span"}

FromExtents == op.name = "initialize" /\ op.form = "extents"

DynamicCount(tags) == Cardinality({r \in Dims(tags) : IsDynamic(tags, r)})

\* C15: direct-initialization from N values (pack, array or span) is
\* well-formed exactly when N is the rank or the number of dynamic extents
\* and the value type converts to index_type without throwing; for any other
\* N it is rejected by the compiler, nothing is constructed and nothing
\* aborts; every construction that runs has such an N.
C15_ValuesCtorArity ==
  /\ (FromValues /\ op.init = "direct") =>
       (op.ok <=> /\ op.elem = "integral"
                  /\ op.n = Len(op.tags) \/ op.n = DynamicCount(op.tags))
  /\ (FromValues /\ ~op.ok) => ext = Null /\ aborted = NoAbort
  /\ op.name = "values" =>
       Len(op.vals) = Len(op.tags) \/ Len(op.vals) = DynamicCount(op.tags)

\* extents<_, 5, 200> e(v): one value, strictly between rank_dynamic (0) and
\* rank (2), is rejected.
C15_Witness ==
  /\ FromValues /\ op.init = "direct" /\ op.elem = "integral" /\ ~op.ok
  /\ op.tags = <<5, 200>> /\ op.n = 1

\* C16: initialization from an array or a span of N integral values, N the
\* rank or the number of dynamic extents, is well-formed as
\* direct-initialization; as copy-initialization (implicit conversion) it is
\* well-formed exactly when N is the number of dynamic extents.
C16_ArraySpanExplicit ==
  ( /\ FromValues /\ op.form \in {"array", "span"} /\ op.elem = "integral"
    /\ op.n = Len(op.tags) \/ op.n = DynamicCount(op.tags) ) =>
    /\ op.init = "direct" => op.ok
    /\ op.init = "copy" => (op.ok <=> op.n = DynamicCount(op.tags))

\* extents<_, 5, D> e = std::array{5, 4}; is rejected.
C16_Witness ==
  /\ FromValues /\ op.form = "array" /\ op.elem = "integral" /\ op.init = "copy"
  /\ op.tags = <<5, dynamic_extent>> /\ op.n = 2 /\ ~op.ok

\* Some dimension where both packs have a static extent and the two differ.
StaticConflict(tags, other_tags) ==
  \E r \in Dims(tags) \cap Dims(other_tags) :
    /\ ~IsDynamic(tags, r) /\ ~IsDynamic(other_tags, r)
    /\ tags[r + 1] # other_tags[r + 1]

\* C17: direct-initialization of a descriptor from one of another type is
\* well-formed exactly when the ranks are equal and no dimension has two
\* different static extents; otherwise the compiler rejects it, nothing is
\* constructed and nothing aborts; every conversion that runs is such a one.
C17_ConversionExists ==
  /\ (FromExtents /\ op.init = "direct") =>
       (op.ok <=> /\ Len(op.tags) = Len(op.src.tags)
                  /\ ~StaticConflict(op.tags, op.src.tags))
  /\ (FromExtents /\ ~op.ok) => ext = Null /\ aborted = NoAbort
  /\ op.name = "convert" =>
       Len(op.tags) = Len(op.src.tags) /\ ~StaticConflict(op.tags, op.src.tags)

\* extents<_, D, 5> to(extents<_, D, 200>) is rejected: equal ranks, one conflict.
C17_Witness ==
  /\ FromExtents /\ op.init = "direct" /\ ~op.ok
  /\ op.tags = <<dynamic_extent, 5>> /\ op.src.tags = <<dynamic_extent, 200>>

\* C18: a legal conversion is well-formed as direct-initialization, and as
\* copy-initialization (implicit conversion) exactly when no dimension has
\* a dynamic source extent and a static destination extent and the largest
\* value of the destination index type is at least that of the source's.
C18_ConversionImplicit ==
  ( /\ FromExtents /\ Len(op.tags) = Len(op.src.tags)
    /\ ~StaticConflict(op.tags, op.src.tags) ) =>
    /\ op.init = "direct" => op.ok
    /\ op.init = "copy" =>
         (op.ok <=> /\ \A r \in Dims(op.tags) :
                         ~(IsDynamic(op.src.tags, r) /\ ~IsDynamic(op.tags, r))
                    /\ NumericMax(op.it) >= NumericMax(op.src.it))

\* extents<int, 5> to = extents<size_t, 5>: same packs, narrower index type, rejected.
C18_Witness ==
  /\ FromExtents /\ op.init = "copy" /\ ~op.ok
  /\ op.it = "int" /\ op.src.it = "size_t"
  /\ op.tags = <<5>> /\ op.src.tags = <<5>>

\* C19: rank() is the length of the extents pack, rank_dynamic() is the
\* number of r in [0, rank) at which static_extent(r) is dynamic_extent, and
\* rank_dynamic() is at most rank().
C19_RankCounts ==
  /\ op.name = "rank" => op.ret = Len(op.tags)
  /\ op.name = "rank_dynamic" =>
       /\ op.ret = Cardinality({r \in Dims(op.tags) :
                                  static_extent(ext, r) = dynamic_extent})
       /\ op.ret <= Len(op.tags)

\* extents<_, 5, D>::rank_dynamic() == 1: the dynamic extent stands behind a static one.
C19_Witness ==
  /\ op.name = "rank_dynamic" /\ op.tags = <<5, dynamic_extent>> /\ op.ret = 1

\* C20: for a pack of rank >= 1 and r in [0, rank), static_extent(r) returns
\* the r-th element of the pack as written: dynamic_extent at a dynamic
\* dimension, the static extent otherwise, whatever the instance stores.
C20_StaticExtentIsTag ==
  (op.name = "static_extent" /\ op.r < Len(op.tags)) => op.ret = op.tags[op.r + 1]

\* extents<int, D, 5>::static_extent(0) == dynamic_extent on an instance
\* whose dynamic extent is 4.
C20_Witness ==
  /\ op.name = "static_extent" /\ op.tags = <<dynamic_extent, 5>>
  /\ op.r = 0 /\ op.ret = dynamic_extent /\ extent(ext, 0) = 4

\* C21: in a build with assertions, every descriptor constructed, by values
\* or by conversion from a descriptor of another index type, has at every
\* dynamic dimension an extent that index_type represents and that is not
\* negative.
C21_ExtentsNonNegative ==
  (assertions /\ ext # Null) =>
    \A r \in Dims(ext.tags) :
      IsDynamic(ext.tags, r) =>
        Representable(ext.it, extent(ext, r)) /\ extent(ext, r) >= 0

\* The last call reached a _LIBCPP_ASSERT whose expression was false: a
\* construction from rank values, of a pack with a dynamic extent, where a
\* value (as index_type) differs from the static extent (as index_type).
AssertedConditionFalse ==
  /\ op.name \in {"values", "roundtrip"}
  /\ Len(op.vals) = Len(op.tags) /\ DynamicCount(op.tags) \in 1 .. Len(op.tags) - 1
  /\ \E r \in Dims(op.tags) :
       /\ ~IsDynamic(op.tags, r)
       /\ StaticCast(op.it, op.vals[r + 1]) # StaticCast(op.it, op.tags[r + 1])

\* C22: a call aborts, with the message given to _LIBCPP_ASSERT, exactly
\* when the asserted expression is false and assertions are enabled; with
\* assertions disabled no call aborts; and a call whose asserted expressions
\* hold leaves the descriptor the other build mode would leave.
C22_AssertFacility ==
  /\ (aborted # NoAbort) <=> (assertions /\ AssertedConditionFalse)
  /\ aborted # NoAbort => aborted = MsgMismatch /\ ext = Null
  /\ ~assertions => aborted = NoAbort
  /\ (op.name = "values" /\ ~AssertedConditionFalse) =>
       \E garbage \in Indeterminate(op.it, rank_dynamic(op.tags)) :
         ext = ValuesCtor(op.form, op.it, op.tags, op.vals, garbage, ~assertions).obj
  /\ op.name = "convert" =>
       ext = extents_converting(op.it, op.tags, op.src, ~assertions).obj

\* extents<int, 5, D>(4, 4) aborts with assertions; without, it completes.
C22_Witness ==
  /\ assertions /\ aborted = MsgMismatch /\ ext = Null
  /\ op.name = "values" /\ op.it = "int"
  /\ op.tags = <<5, dynamic_extent>> /\ op.vals = <<4, 4>>

\* C25: for every pack and every r in [0, rank], rank included, the slot
\* __dyn_map_t::get(r) is the number of dynamic extents before r; so the
\* slot of rank is rank_dynamic, also when the last extent is dynamic.
C25_SlotCountsDynamicBefore ==
  op.name = "slot" =>
    /\ op.ret = DynamicBefore(op.tags, op.r)
    /\ op.r = Len(op.tags) => op.ret = DynamicCount(op.tags)

\* The dimensions of a pack with a dynamic extent.
DynamicDims(tags) == {r \in Dims(tags) : IsDynamic(tags, r)}

\* C26: a descriptor stores exactly rank_dynamic values (none for a pack
\* without dynamic extent); the slot of every dynamic dimension is in
\* [0, rank_dynamic), two dynamic dimensions have two slots, the later the
\* larger, and extent(r) of a dynamic dimension is the value stored at its
\* slot; no call of extent() reads outside the stored values.
C26_StorageLayout ==
  /\ ext # Null =>
       /\ Len(ext.dyn) = DynamicCount(ext.tags)
       /\ \A r \in DynamicDims(ext.tags) :
            /\ dyn_map_get(ext.tags, r) \in 0 .. DynamicCount(ext.tags) - 1
            /\ extent(ext, r) = ext.dyn[dyn_map_get(ext.tags, r) + 1]
            /\ \A q \in DynamicDims(ext.tags) :
                 q < r => dyn_map_get(ext.tags, q) < dyn_map_get(ext.tags, r)
  /\ op.name = "extent" => op.ret # OutOfBounds

\* extents<int, D, D>(4, 200): two stored values, 4 at slot 0 and 200 at slot 1.
C26_Witness ==
  /\ ext # Null /\ ext.it = "int" /\ ext.tags = <<dynamic_extent, dynamic_extent>>
  /\ ext.dyn = <<4, 200>> /\ extent(ext, 0) = 4 /\ extent(ext, 1) = 200
  /\ op.name = "values"

\* The values of a full list at the dynamic dimensions, in their order.
RECURSIVE DynamicPart(_, _)
DynamicPart(tags, vals) ==
  IF Len(tags) = 0 THEN <<>>
  ELSE (IF Head(tags) = dynamic_extent THEN <<Head(vals)>> ELSE <<>>)
         \o DynamicPart(Tail(tags), Tail(vals))

\* The last call constructed from rank values that equal every static extent.
FullFormMatching ==
  /\ op.name = "values" /\ Len(op.vals) = Len(op.tags)
  /\ \A r \in Dims(op.tags) : ~IsDynamic(op.tags, r) => op.vals[r + 1] = op.tags[r + 1]

\* C27: for every pack and every list of rank values that equals the static
\* extents, the constructions from a pack, an array and a span, of all the
\* values or of the values at the dynamic dimensions only, complete and give
\* the same extent at every dimension.
C27_SixFormsAgree ==
  FullFormMatching =>
    /\ aborted = NoAbort /\ ext # Null
    /\ \A form \in {"pack", "array", "span"} :
         \A vals \in {op.vals, DynamicPart(op.tags, op.vals)} :
           \A garbage \in Indeterminate(op.it, rank_dynamic(op.tags)) :
             (form = "pack" => Len(vals) > 0) =>
               LET res == ValuesCtor(form, op.it, op.tags, vals, garbage, assertions)
               IN  /\ res.abort = NoAbort
                   /\ FullExtents(res.obj) = FullExtents(ext)

\* extents<int, 5, D>(std::span{5, 4}) in a build with assertions: extents
\* 5, 4 as from (4), (5, 4) or the arrays.
C27_Witness ==
  /\ FullFormMatching /\ assertions /\ op.form = "span" /\ op.it = "int"
  /\ op.tags = <<5, dynamic_extent>> /\ op.vals = <<5, 4>>
  /\ ext # Null /\ FullExtents(ext) = <<5, 4>>

\* C28: a construction from rank values that completes gives the descriptor
\* of every other such construction with the same values at the dynamic
\* dimensions, whatever the values at the static ones; without assertions
\* every such construction completes; and for a pack of static extents only
\* the result has the extents of the default-constructed descriptor.
C28_StaticValuesDiscarded ==
  (op.name = "values" /\ Len(op.vals) = Len(op.tags) /\ Len(op.tags) > 0) =>
    /\ ~assertions => aborted = NoAbort
    /\ aborted = NoAbort =>
         /\ ext # Null /\ ext.tags = op.tags
         /\ \A r \in Dims(op.tags) :
              extent(ext, r) = StaticCast(op.it, IF IsDynamic(op.tags, r)
                                                  THEN op.vals[r + 1] ELSE op.tags[r + 1])
         /\ DynamicCount(op.tags) = 0 =>
              FullExtents(ext)
                = FullExtents(maybe_static_array_default(op.it, op.tags, "value-init",
                                                         <<>>).obj)

\* extents<int, 5, D>(4, 4) without assertions: extents 5, 4 as from (5, 4).
C28_Witness ==
  /\ ~assertions /\ op.name = "values" /\ op.it = "int"
  /\ op.tags = <<5, dynamic_extent>> /\ op.vals = <<4, 4>>
  /\ aborted = NoAbort /\ ext # Null /\ FullExtents(ext) = <<5, 4>>

\* C30: for two descriptors of equal rank, of any index types and packs,
\* that hold no negative extent, a == b holds exactly when b == a holds.
C30_EqualitySymmetric ==
  ( /\ op.name = "equals" /\ Len(ext.tags) = Len(op.src.tags)
    /\ \A r \in Dims(ext.tags) : extent(ext, r) >= 0 /\ extent(op.src, r) >= 0 ) =>
    (op.eq <=> op.rev)

\* The number of extents a reader at pc has read.
ReadSoFar(pc) == IF pc < Len(ext.tags) THEN pc ELSE Len(ext.tags)

AllDone == \A t \in Threads : readers[t].pc = Len(ext.tags) + 1

\* C23: no call of an observer by any thread, no comparison and no
\* construction of another instance from it changes a descriptor: d keeps
\* its type and every stored value, hence every extent(r), in every step,
\* and c, once constructed, changes in a step of assignment to c only, and
\* then keeps its type.
C23_OnlyAssignmentChanges ==
  [][ /\ ext' = ext
      /\ copy # Null =>
           /\ copy'.it = copy.it /\ copy'.tags = copy.tags
           /\ copy' # copy => op'.name = "assign" ]_vars

\* extents<int, D, D> d with extents (4, 200), read to the end by both
\* threads, converted to c, assigned to and compared with c: d still has
\* (4, 200) and c has another value.
C23_Witness ==
  /\ ext.it = "int" /\ ext.tags = <<dynamic_extent, dynamic_extent>>
  /\ FullExtents(ext) = <<4, 200>> /\ AllDone
  /\ copy # Null /\ copy.it = "char" /\ FullExtents(copy) # FullExtents(ext)
  /\ op.name = "equals" /\ op.form = "other"

\* C24: every thread that reads d, interleaved in any order with the other
\* thread and with the client, without synchronization, has read at every
\* point what a sequential read gives: extent(r) and static_extent(r) for
\* the dimensions read so far, then rank() and rank_dynamic(), and true for
\* d == d; an assignment to the distinct instance c changes none of it.
C24_ConcurrentReads ==
  \A t \in Threads :
    LET R == readers[t]
    IN  /\ R.seen = SubSeq(FullExtents(ext), 1, ReadSoFar(R.pc))
        /\ R.statics = SubSeq(ext.tags, 1, ReadSoFar(R.pc))
        /\ R.eq
        /\ R.pc = Len(ext.tags) + 1 =>
             R.rk = Len(ext.tags) /\ R.rkd = DynamicCount(ext.tags)

\* One thread has read extent(0) == 4 of extents<int, D, D>, the other one
\* has finished, and the client has just assigned (200, 200) to c, of the
\* same type.
C24_Witness ==
  /\ ext.it = "int" /\ ext.tags = <<dynamic_extent, dynamic_extent>>
  /\ readers[1].pc = 1 /\ readers[1].seen = <<4>>
  /\ readers[2].pc = 3 /\ readers[2].seen = <<4, 200>>
  /\ op.name = "assign" /\ op.form = "value"
  /\ copy.it = ext.it /\ copy.tags = ext.tags /\ FullExtents(copy) = <<200, 200>>

\* C29: a copy of d, by copy construction or by assignment of d, has the
\* type of d and the extent of d at every dimension, and compares equal to
\* d in both orders; d compares equal to itself; and an assignment of
\* another value to the copy leaves the extents of d as they were.
C29_RegularValue ==
  [][ /\ (op'.name = "copy" \/ (op'.name = "assign" /\ op'.form = "d")) =>
           /\ copy'.it = ext'.it /\ copy'.tags = ext'.tags
           /\ FullExtents(copy)' = FullExtents(ext)'
      /\ (op'.name = "equals" /\ (op'.form = "copy" \/ op'.lhs = op'.rhs)) =>
           op'.eq /\ op'.rev /\ ~op'.ne
      /\ (op'.name = "assign" /\ op'.form = "value") =>
           FullExtents(ext)' = FullExtents(ext) ]_vars

\* extents<int, D, D> d with extents (4, 200), copied to c, c assigned
\* (200, 200) and then d again, and c == d compared: equal.
C29_Witness ==
  /\ ext.it = "int" /\ ext.tags = <<dynamic_extent, dynamic_extent>>
  /\ FullExtents(ext) = <<4, 200>> /\ FullExtents(copy) = <<4, 200>>
  /\ op.name = "equals" /\ op.form = "copy" /\ op.lhs = "c" /\ op.rhs = "d" /\ op.eq
====
